---- MODULE Spec2Model ----
(***************************************************************************)
(* A model of package ini (src/ini.go): Read, which turns a byte stream    *)
(* into (Section, Key, Value) entries handed to a callback, and Write,     *)
(* which renders the entries a producer emits.                             *)
(*                                                                         *)
(* A text is a sequence of one-character strings.  Positions are 1-based,  *)
(* so IndexByte answers 0 where Go answers -1.  An error value is a        *)
(* number: 0 is nil, k > 0 is the error of the sink's k-th call.           *)
(***************************************************************************)
EXTENDS Naturals, Sequences, FiniteSets

VARIABLES text, rd, wr, sink, todo, emitted, phase

vars == <<text, rd, wr, sink, todo, emitted, phase>>

\* ------------------------------------------------------------------ bounds

\* Longest input text given to Read, in characters.
MaxLen == 4

\* Longest input text that follows a whitespace-only first line.
MaxLeadLen == 5

\* Most entries a producer emits in one Write call.
MaxEmit == 3

\* Latest call at which the sink may start to fail.
MaxFailAt == 4

\* The characters of the input texts: one ordinary character and every
\* character Read treats specially.
Chars == {"a", "=", "#", "[", "]", "\\", " ", "\n"}

TextsUpTo(m) == UNION {[1..n -> Chars] : n \in 0..m}

\* A whitespace-only first line that may precede the text.
LeadingLines == {<<>>, <<" ", "\n">>}

\* ----------------------------------------------------------- byte helpers

\* A text is a sequence of runes, each a string. A rune that a string of
\* this language can hold is written as itself; the vertical tab (byte
\* 0x0B), NEL (U+0085) and NBSP (U+00A0) have no escape and stand raw
\* between the quotes. A rune above Latin-1 is named by its code point.
VT == ""

NEL == ""

NBSP == " "

\* The White_Space runes above Latin-1 (unicode.White_Space).
WhiteSpaceAboveLatin1 ==
    {"U+1680", "U+2000", "U+2001", "U+2002", "U+2003", "U+2004", "U+2005",
     "U+2006", "U+2007", "U+2008", "U+2009", "U+200A", "U+2028", "U+2029",
     "U+202F", "U+205F", "U+3000"}

\* unicode.IsSpace, as bytes.TrimSpace uses it: '\t', '\n', '\v', '\f',
\* '\r', ' ', U+0085, U+00A0, and the White_Space runes above Latin-1.
IsSpace(c) ==
    c \in {"\t", "\n", VT, "\f", "\r", " ", NEL, NBSP}
           \cup WhiteSpaceAboveLatin1

RECURSIVE TrimLeft(_)
TrimLeft(s) ==
    IF s # <<>> /\ IsSpace(Head(s)) THEN TrimLeft(Tail(s)) ELSE s

RECURSIVE TrimRight(_)
TrimRight(s) ==
    IF s # <<>> /\ IsSpace(s[Len(s)])
    THEN TrimRight(SubSeq(s, 1, Len(s) - 1))
    ELSE s

\* bytes.TrimSpace
TrimSpace(s) == TrimRight(TrimLeft(s))

\* A variant of IndexByte: the last position of c in s.
LastIndexByte(s, c) ==
    IF \E i \in 1..Len(s) : s[i] = c
    THEN CHOOSE i \in 1..Len(s) : s[i] = c /\ \A j \in (i+1)..Len(s) : s[j] # c
    ELSE 0

\* bytes.IndexByte: the first position of c in s, 0 when there is none.
IndexByte(s, c) ==
    IF \E i \in 1..Len(s) : s[i] = c
    THEN CHOOSE i \in 1..Len(s) : s[i] = c /\ \A j \in 1..(i-1) : s[j] # c
    ELSE 0

\* bufio's dropCR: one trailing carriage return is dropped.
DropCR(s) ==
    IF s # <<>> /\ s[Len(s)] = "\r" THEN SubSeq(s, 1, Len(s) - 1) ELSE s

\* One scanner.Scan() with bufio.ScanLines over the unread input: the token
\* up to the next line feed (or to the end of the input), and what is left.
ScanLines(data) ==
    IF data = <<>>
    THEN [ok |-> FALSE, token |-> <<>>, rest |-> <<>>]
    ELSE LET i == IndexByte(data, "\n") IN
         IF i > 0
         THEN [ok |-> TRUE, token |-> DropCR(SubSeq(data, 1, i - 1)),
               rest |-> SubSeq(data, i + 1, Len(data))]
         ELSE [ok |-> TRUE, token |-> DropCR(data), rest |-> <<>>]

\* ------------------------------------------------------------------- Read

\* type Entry
Entry(s, k, v) == [Section |-> s, Key |-> k, Value |-> v]

\* The locals of a Read call on the reader `data`: the unread input, linebuf,
\* ent, the entries handed to cb so far, the call's outcome ("run" while in
\* the loop, "ok" for a nil return, "cberr" for the callback's error,
\* "invalid" for the invalid line error with errline its text), the branch
\* of the loop body taken last, and the number of the cb call that answered
\* an error (0: none did).
ReadInit(data) ==
    [input |-> data, linebuf |-> <<>>, ent |-> Entry(<<>>, <<>>, <<>>),
     delivered |-> <<>>, status |-> "run", errline |-> <<>>, branch |-> "start",
     cbfail |-> 0]

\* scanner.Scan() answers false: return scanner.Err(), nil for a reader that
\* does not fail.
OnEOF(r) == [r EXCEPT !.status = "ok", !.branch = "eof"]

\* The trimmed linebuf is empty: continue, linebuf kept as it is.
OnBlank(r, lb) == [r EXCEPT !.linebuf = lb, !.branch = "blank"]

\* The last byte is a backslash: it becomes a line feed, continue.
OnContinuation(r, lb) ==
    [r EXCEPT !.linebuf = [lb EXCEPT ![Len(lb)] = "\n"], !.branch = "continuation"]

\* The first byte is '#': linebuf is emptied, continue.
OnComment(r, lb) == [r EXCEPT !.linebuf = <<>>, !.branch = "comment"]

\* '[' ... ']': ent.Section is what stands between them, linebuf is emptied.
OnSection(r, lb) ==
    [r EXCEPT !.ent.Section = SubSeq(lb, 2, Len(lb) - 1),
              !.linebuf = <<>>, !.branch = "section"]

\* A variant of OnEntry that splits at the last '='.
OnEntrySplitLast(r, lb, cbErr) ==
    LET idx == LastIndexByte(lb, "=")
        e == Entry(r.ent.Section,
                   TrimSpace(SubSeq(lb, 1, idx - 1)),
                   TrimSpace(SubSeq(lb, idx + 1, Len(lb))))
    IN  IF cbErr
        THEN [r EXCEPT !.ent = e, !.delivered = Append(@, e), !.linebuf = lb,
                       !.status = "cberr", !.branch = "entry",
                       !.cbfail = Len(r.delivered) + 1]
        ELSE [r EXCEPT !.ent = e, !.delivered = Append(@, e),
                       !.linebuf = <<>>, !.branch = "entry"]

\* A variant of OnEntry that drops the callback's error and goes on.
OnEntryIgnoreErr(r, lb, cbErr) ==
    LET idx == IndexByte(lb, "=")
        e == Entry(r.ent.Section,
                   TrimSpace(SubSeq(lb, 1, idx - 1)),
                   TrimSpace(SubSeq(lb, idx + 1, Len(lb))))
    IN  [r EXCEPT !.ent = e, !.delivered = Append(@, e),
                  !.linebuf = <<>>, !.branch = "entry",
                  !.cbfail = IF cbErr THEN Len(r.delivered) + 1 ELSE @]

\* The line holds '=': Key and Value are the trimmed parts around the first
\* '=', the entry goes to cb, whose error ends the call; else linebuf is
\* emptied.
OnEntry(r, lb, cbErr) ==
    LET idx == IndexByte(lb, "=")
        e == Entry(r.ent.Section,
                   TrimSpace(SubSeq(lb, 1, idx - 1)),
                   TrimSpace(SubSeq(lb, idx + 1, Len(lb))))
    IN  IF cbErr
        THEN [r EXCEPT !.ent = e, !.delivered = Append(@, e), !.linebuf = lb,
                       !.status = "cberr", !.branch = "entry",
                       !.cbfail = Len(r.delivered) + 1]
        ELSE [r EXCEPT !.ent = e, !.delivered = Append(@, e),
                       !.linebuf = <<>>, !.branch = "entry"]

\* A variant of OnInvalid that skips the line and goes on.
OnInvalidSkip(r, lb) == [r EXCEPT !.linebuf = <<>>, !.branch = "invalid"]

\* Anything else: return the invalid line error, which quotes linebuf.
OnInvalid(r, lb) ==
    [r EXCEPT !.linebuf = lb, !.status = "invalid", !.errline = lb,
              !.branch = "invalid"]

\* One pass of the scanner loop of Read; cbErr says whether cb answers an
\* error should this pass call it.
Step(r, cbErr) ==
    LET sc == ScanLines(r.input) IN
    IF ~sc.ok THEN OnEOF(r)
    ELSE
      LET lb == r.linebuf \o sc.token
          r1 == [r EXCEPT !.input = sc.rest]
      IN  IF Len(lb) = 0 \/ Len(TrimSpace(lb)) = 0 THEN OnBlank(r1, lb)
          ELSE IF lb[Len(lb)] = "\\" THEN OnContinuation(r1, lb)
          ELSE IF lb[1] = "#" THEN OnComment(r1, lb)
          ELSE IF lb[1] = "[" /\ lb[Len(lb)] = "]" THEN OnSection(r1, lb)
          ELSE IF IndexByte(lb, "=") > 0 THEN OnEntry(r1, lb, cbErr)
          ELSE OnInvalid(r1, lb)

\* A whole Read call continued from r, with a callback that answers an error
\* at its failAt-th call (0: never).
RECURSIVE ReadFrom(_, _)
ReadFrom(r, failAt) ==
    IF r.status # "run" THEN r
    ELSE ReadFrom(Step(r, Len(r.delivered) + 1 = failAt), failAt)

\* Read(r, cb): what cb was given and how the call ended.
Read(data, failAt) ==
    LET r == ReadFrom(ReadInit(data), failAt)
    IN  [delivered |-> r.delivered, status |-> r.status]

\* ------------------------------------------------------------------ Write

\* The locals of a Write call: section, wrote, ew.err, and the call's state
\* with the error it returned.
WriteInit ==
    [section |-> <<>>, wrote |-> FALSE, err |-> 0, status |-> "idle", result |-> 0]

\* The io.Writer under ew: what it accepted, how often it was called, and the
\* call from which on it fails (0: never, as a bytes.Buffer).
SinkInit(failAt) == [data |-> <<>>, calls |-> 0, failAt |-> failAt]

\* w.Write(p): the call is counted; it fails with the call's own error and
\* accepts nothing, or accepts p.
SinkWrite(k, p) ==
    LET c == k.calls + 1 IN
    IF k.failAt > 0 /\ c >= k.failAt
    THEN [err |-> c, sink |-> [k EXCEPT !.calls = c]]
    ELSE [err |-> 0, sink |-> [k EXCEPT !.calls = c, !.data = @ \o p]]

\* A variant of EwWrite that passes every write on.
EwWriteUnguarded(s, p) ==
    LET w == SinkWrite(s.sink, p) IN [err |-> w.err, sink |-> w.sink]

\* errWriter.Write on s = [err, sink]: nothing is passed on once err is set.
EwWrite(s, p) ==
    IF s.err # 0 THEN s
    ELSE LET w == SinkWrite(s.sink, p) IN [err |-> w.err, sink |-> w.sink]

RECURSIVE WriteAll(_, _)
WriteAll(s, chunks) ==
    IF chunks = <<>> THEN s
    ELSE WriteAll(EwWrite(s, Head(chunks)), Tail(chunks))

\* strings.ReplaceAll(x, "\n", "\\\n")
RECURSIVE escape(_)
escape(x) ==
    IF x = <<>> THEN <<>>
    ELSE IF Head(x) = "\n" THEN <<"\\", "\n">> \o escape(Tail(x))
    ELSE <<Head(x)>> \o escape(Tail(x))

\* A variant of EmitWrites that writes the header for every entry.
EmitWritesHeaderAlways(section, wrote, ent) ==
    (IF wrote THEN <<(<<"\n">>)>> ELSE <<>>)
    \o <<(<<"[">> \o escape(ent.Section) \o <<"]", "\n">>)>>
    \o (IF Len(ent.Key) > 0 THEN <<(escape(ent.Key) \o <<" ">>)>> ELSE <<>>)
    \o <<(<<"=">>)>>
    \o (IF Len(ent.Value) > 0 THEN <<(<<" ">> \o escape(ent.Value))>> ELSE <<>>)
    \o <<(<<"\n">>)>>

\* The writes one emit(ent) makes on ew, in order, one per fmt call.
EmitWrites(section, wrote, ent) ==
    (IF ent.Section # section
     THEN (IF wrote THEN <<(<<"\n">>)>> ELSE <<>>)
          \o <<(<<"[">> \o escape(ent.Section) \o <<"]", "\n">>)>>
     ELSE <<>>)
    \o (IF Len(ent.Key) > 0 THEN <<(escape(ent.Key) \o <<" ">>)>> ELSE <<>>)
    \o <<(<<"=">>)>>
    \o (IF Len(ent.Value) > 0 THEN <<(<<" ">> \o escape(ent.Value))>> ELSE <<>>)
    \o <<(<<"\n">>)>>

\* The entries the producers of the Write model choose from.
Sections == {<<>>, <<"s">>, <<"t", "\n", "u">>}
Keys == {<<>>, <<"k">>}
Values == {<<>>, <<"v", "\n", "w">>}
Entries == {Entry(s, k, v) : s \in Sections, k \in Keys, v \in Values}
Productions == UNION {[1..n -> Entries] : n \in 0..MaxEmit}

\* ---------------------------------------------------------------- actions

\* A pass of Read's loop over an empty or whitespace-only linebuf.
ReadBlank ==
    /\ phase \in {"read", "reread"}
    /\ rd.status = "run"
    /\ rd' = Step(rd, FALSE)
    /\ rd'.branch = "blank"
    /\ UNCHANGED <<text, wr, sink, todo, emitted, phase>>

\* A pass over a linebuf that ends in a backslash.
ReadContinuation ==
    /\ phase \in {"read", "reread"}
    /\ rd.status = "run"
    /\ rd' = Step(rd, FALSE)
    /\ rd'.branch = "continuation"
    /\ UNCHANGED <<text, wr, sink, todo, emitted, phase>>

\* A pass over a comment.
ReadComment ==
    /\ phase \in {"read", "reread"}
    /\ rd.status = "run"
    /\ rd' = Step(rd, FALSE)
    /\ rd'.branch = "comment"
    /\ UNCHANGED <<text, wr, sink, todo, emitted, phase>>

\* A pass over a section declaration.
ReadSection ==
    /\ phase \in {"read", "reread"}
    /\ rd.status = "run"
    /\ rd' = Step(rd, FALSE)
    /\ rd'.branch = "section"
    /\ UNCHANGED <<text, wr, sink, todo, emitted, phase>>

\* A pass over an entry; cb answers nil.
ReadEntry ==
    /\ phase \in {"read", "reread"}
    /\ rd.status = "run"
    /\ rd' = Step(rd, FALSE)
    /\ rd'.branch = "entry"
    /\ UNCHANGED <<text, wr, sink, todo, emitted, phase>>

\* A pass over an entry; cb answers an error.
ReadEntryFail ==
    /\ phase \in {"read", "reread"}
    /\ rd.status = "run"
    /\ rd' = Step(rd, TRUE)
    /\ rd'.branch = "entry"
    /\ UNCHANGED <<text, wr, sink, todo, emitted, phase>>

\* A pass over an invalid line.
ReadInvalid ==
    /\ phase \in {"read", "reread"}
    /\ rd.status = "run"
    /\ rd' = Step(rd, FALSE)
    /\ rd'.branch = "invalid"
    /\ UNCHANGED <<text, wr, sink, todo, emitted, phase>>

\* The scanner is at the end of the input.
ReadEOF ==
    /\ phase \in {"read", "reread"}
    /\ rd.status = "run"
    /\ rd' = Step(rd, FALSE)
    /\ rd'.branch = "eof"
    /\ UNCHANGED <<text, wr, sink, todo, emitted, phase>>

\* The producer calls emit with its next entry.
WriteEmit ==
    /\ phase = "write"
    /\ wr.status = "run"
    /\ todo # <<>>
    /\ LET ent == Head(todo)
           s == WriteAll([err |-> wr.err, sink |-> sink],
                         EmitWrites(wr.section, wr.wrote, ent))
       IN  /\ wr' = [wr EXCEPT !.section = ent.Section, !.wrote = TRUE,
                               !.err = s.err]
           /\ sink' = s.sink
    /\ todo' = Tail(todo)
    /\ emitted' = Append(emitted, Head(todo))
    /\ UNCHANGED <<text, rd, phase>>

\* The producer returns and Write returns ew.err.
WriteReturn ==
    /\ phase = "write"
    /\ wr.status = "run"
    /\ todo = <<>>
    /\ wr' = [wr EXCEPT !.status = "returned", !.result = wr.err]
    /\ UNCHANGED <<text, rd, sink, todo, emitted, phase>>

\* The round trip of TestWrite_RoundTrip: Write is called with a producer that
\* emits what Read delivered ...
RoundTripWrite ==
    /\ phase = "read"
    /\ rd.status # "run"
    /\ phase' = "write"
    /\ wr' = [wr EXCEPT !.status = "run"]
    /\ todo' = rd.delivered
    /\ UNCHANGED <<text, rd, sink, emitted>>

\* ... and Read is called on what Write wrote.
RoundTripRead ==
    /\ phase = "write"
    /\ wr.status = "returned"
    /\ phase' = "reread"
    /\ rd' = ReadInit(sink.data)
    /\ UNCHANGED <<text, wr, sink, todo, emitted>>

\* --------------------------------------------------------- specifications

InitRead(t) ==
    /\ text = t
    /\ rd = ReadInit(t)
    /\ wr = WriteInit
    /\ sink = SinkInit(0)
    /\ todo = <<>>
    /\ emitted = <<>>
    /\ phase = "read"

\* Read on any text of up to MaxLen characters.
Init == \E t \in TextsUpTo(MaxLen) : InitRead(t)

Next ==
    \/ ReadBlank
    \/ ReadContinuation
    \/ ReadComment
    \/ ReadSection
    \/ ReadEntry
    \/ ReadEntryFail
    \/ ReadInvalid
    \/ ReadEOF

Spec == Init /\ [][Next]_vars

\* Read on the same texts, each also with a whitespace-only line before it.
InitLead == \E l \in LeadingLines, t \in TextsUpTo(MaxLeadLen) : InitRead(l \o t)

SpecLead == InitLead /\ [][Next]_vars

\* Write with any producer of up to MaxEmit entries and any sink.
InitWrite ==
    /\ text = <<>>
    /\ rd = ReadInit(<<>>)
    /\ wr = [WriteInit EXCEPT !.status = "run"]
    /\ \E f \in 0..MaxFailAt : sink = SinkInit(f)
    /\ todo \in Productions
    /\ emitted = <<>>
    /\ phase = "write"

NextWrite == WriteEmit \/ WriteReturn

SpecWrite == InitWrite /\ [][NextWrite]_vars

\* Read, then Write of what was delivered, then Read of what was written.
NextRoundTrip ==
    \/ ReadBlank
    \/ ReadContinuation
    \/ ReadComment
    \/ ReadSection
    \/ ReadEntry
    \/ ReadInvalid
    \/ ReadEOF
    \/ RoundTripWrite
    \/ WriteEmit
    \/ WriteReturn
    \/ RoundTripRead

SpecRoundTrip == Init /\ [][NextRoundTrip]_vars

\* ------------------------------------------- the input as a reader sees it

Range(s) == {s[i] : i \in 1..Len(s)}

\* The part of the text the scanner has handed to the Read call r.
Consumed(r) == SubSeq(text, 1, Len(text) - Len(r.input))

\* What was handed to cb and how the call ended.
Outcome(r) == [delivered |-> r.delivered, status |-> r.status]

\* The callback of the call r, as a rule for another call: it answers an error
\* at the same call, or never.
FailAtOf(r) == r.cbfail

\* s without its leading and trailing whitespace, said without recursion.
RefTrim(s) ==
    LET keep == {i \in 1..Len(s) : ~IsSpace(s[i])} IN
    IF keep = {} THEN <<>>
    ELSE SubSeq(s, CHOOSE i \in keep : \A j \in keep : i <= j,
                   CHOOSE i \in keep : \A j \in keep : j <= i)

\* The text before the first '=' of s, and the text after it.
RECURSIVE RefBefore(_)
RefBefore(s) ==
    IF s = <<>> \/ Head(s) = "=" THEN <<>> ELSE <<Head(s)>> \o RefBefore(Tail(s))

RECURSIVE RefAfter(_)
RefAfter(s) ==
    IF s = <<>> THEN <<>> ELSE IF Head(s) = "=" THEN Tail(s) ELSE RefAfter(Tail(s))

NoEdgeSpace(s) == s = <<>> \/ (~IsSpace(s[1]) /\ ~IsSpace(s[Len(s)]))

EndsInBackslash(l) == l # <<>> /\ l[Len(l)] = "\\"

\* The logical lines of a text t without carriage returns, by position. A
\* logical line starts at p when p starts a raw line and the raw line before
\* it does not end in a backslash.
LogicalStart(t, p) ==
    \/ p = 1
    \/ /\ t[p - 1] = "\n"
       /\ ~(p >= 3 /\ t[p - 2] = "\\")

Starts(t) == {p \in 1..Len(t) : LogicalStart(t, p)}

\* The last position of the logical line that starts at p, its line feed
\* included.
LogicalEnd(t, p) ==
    LET later == {q \in (p + 1)..Len(t) : LogicalStart(t, q)} IN
    IF later = {} THEN Len(t)
    ELSE (CHOOSE q \in later : \A x \in later : q <= x) - 1

\* Every backslash that ends a raw line, with the line feed after it, becomes
\* one line feed.
RECURSIVE Join(_)
Join(s) ==
    IF s = <<>> THEN <<>>
    ELSE IF Len(s) >= 2 /\ s[1] = "\\" /\ s[2] = "\n"
    THEN <<"\n">> \o Join(SubSeq(s, 3, Len(s)))
    ELSE <<Head(s)>> \o Join(Tail(s))

\* The logical line that starts at p: its raw lines joined, without the line
\* feed that ends it.
LineAt(t, p) ==
    LET q == LogicalEnd(t, p) IN
    Join(SubSeq(t, p, IF q >= p /\ t[q] = "\n" THEN q - 1 ELSE q))

\* The number of raw lines of the logical line that starts at p.
RawCount(t, p) ==
    1 + Cardinality({i \in p..(LogicalEnd(t, p) - 2) :
                        t[i] = "\\" /\ t[i + 1] = "\n"})

\* The shapes of a logical line, in the order Read tests them.
IsBlankLine(l) == RefTrim(l) = <<>>
IsCommentLine(l) == ~IsBlankLine(l) /\ l[1] = "#"
IsHeaderLine(l) == ~IsBlankLine(l) /\ l[1] = "[" /\ l[Len(l)] = "]"
IsEntryLine(l) ==
    ~IsBlankLine(l) /\ ~IsCommentLine(l) /\ ~IsHeaderLine(l) /\ "=" \in Range(l)
IsInvalidLine(l) ==
    ~IsBlankLine(l) /\ ~IsCommentLine(l) /\ ~IsHeaderLine(l) /\ "=" \notin Range(l)

\* The start of the logical line that the pass into the Read call r
\* completed, and that line.
StartRead(r) ==
    LET st == Starts(Consumed(r)) IN CHOOSE p \in st : \A q \in st : q <= p

LineRead(r) == LineAt(Consumed(r), StartRead(r))

\* The pass from r to q read a raw line that completes a logical line.
CompletesLine(r, q) ==
    /\ r.status = "run"
    /\ q.branch \notin {"start", "eof", "continuation"}

\* The text between the brackets of the last section header line of t before
\* position p, empty when there is none.
RefSection(t, p) ==
    LET hs == {h \in Starts(t) : h < p /\ IsHeaderLine(LineAt(t, h))} IN
    IF hs = {} THEN <<>>
    ELSE LET l == LineAt(t, CHOOSE h \in hs : \A x \in hs : x <= h)
         IN  SubSeq(l, 2, Len(l) - 1)

Insert(t, p, l) == SubSeq(t, 1, p - 1) \o l \o SubSeq(t, p, Len(t))
Remove(t, p, q) == SubSeq(t, 1, p - 1) \o SubSeq(t, q + 1, Len(t))

\* A raw line that is empty, and one that is whitespace only.
BlankLines == {<<"\n">>, <<" ", "\n">>}

\* ----------------------------------------------------------------- claims

\* C1: round trip. When Read has delivered the entries E from an input, Write
\* with a producer that emits E in order, followed by Read of the written
\* text, succeeds and delivers E again, field by field and in order.
C1_RoundTrip ==
    (phase = "reread" /\ rd.status # "run")
        => (rd.status = "ok" /\ rd.delivered = emitted)

\* C2: blank lines have no effect. A raw line that is empty or whitespace
\* only, put in between two complete logical lines of the input, leaves the
\* outcome of Read as it is: the same entries in the same order and the same
\* success or failure.
C2_BlankLineNoEffect ==
    (phase = "read" /\ rd.status # "run")
        => \A p \in 2..Len(text), l \in BlankLines :
              LogicalStart(text, p)
                  => Read(Insert(text, p, l), FailAtOf(rd)) = Outcome(rd)

\* C3: section scoping. Every entry handed to the callback carries as Section
\* the text between the brackets of the last section header line before it in
\* the input, or the empty string when there is none.
C3_SectionScoping ==
    [][(rd.status = "run" /\ Len(rd'.delivered) > Len(rd.delivered))
          => rd'.delivered[Len(rd'.delivered)].Section
                 = RefSection(Consumed(rd'), StartRead(rd'))]_vars

\* C4: malformed line. The pass that meets a line that is not blank, not a
\* comment, not a section header and holds no '=' ends the call with the
\* invalid line error; that pass delivers nothing, what was delivered before
\* stays, and nothing is delivered afterwards.
C4_MalformedLine ==
    /\ [](rd.branch = "invalid" => (rd.status = "invalid" /\ rd.cbfail = 0))
    /\ [][/\ (rd.status = "run" /\ rd'.branch = "invalid")
                => (rd'.delivered = rd.delivered
                    /\ rd'.errline = rd.linebuf \o ScanLines(rd.input).token)
          /\ (CompletesLine(rd, rd') /\ rd'.status # "invalid")
                => ~IsInvalidLine(LineRead(rd'))
          /\ rd.status = "invalid" => rd'.delivered = rd.delivered]_vars

\* The invalid line error, with an entry line left unread.
C4_Witness ==
    /\ rd.status = "invalid"
    /\ rd.errline = <<"a">>
    /\ "=" \in Range(rd.input)

\* C5: consumer failure. When the callback answers an error for an entry, Read
\* returns it at once and never calls the callback again; the entries
\* delivered before the failing one stay delivered.
C5_ConsumerFailure ==
    /\ [](rd.cbfail # 0
            => (rd.status = "cberr" /\ Len(rd.delivered) = rd.cbfail))
    /\ [](rd.status = "cberr" => rd.cbfail # 0)
    /\ [][SubSeq(rd'.delivered, 1, Len(rd.delivered)) = rd.delivered]_vars

\* The callback's error, with an entry line left unread.
C5_Witness ==
    /\ rd.status = "cberr"
    /\ rd.cbfail = Len(rd.delivered)
    /\ "=" \in Range(rd.input)

\* C6: Write keeps the first sink failure. Once a call of the sink has
\* failed, no later write reaches the sink, whatever the producer emits, and
\* Write returns the error of that first failed call; when no call fails,
\* Write returns nil.
SinkFailed == sink.failAt > 0 /\ sink.calls >= sink.failAt

C6_FirstSinkFailure ==
    /\ SinkFailed => (sink.calls = sink.failAt /\ wr.err = sink.failAt)
    /\ ~SinkFailed => wr.err = 0
    /\ wr.status = "returned"
          => wr.result = (IF SinkFailed THEN sink.failAt ELSE 0)

\* The sink failed at its second call, during the first of three emits.
C6_Witness ==
    /\ wr.status = "returned"
    /\ wr.result = 2
    /\ sink.calls = 2
    /\ Len(emitted) = 3

\* C7: comment skipping. A logical line that starts with '#', continued over
\* several raw lines or not, causes no callback and changes no entry: the
\* outcome of Read is that of the input with the comment removed.
C7_CommentSkipped ==
    (phase = "read" /\ rd.status # "run")
        => \A p \in 1..Len(text) :
              (text[p] = "#" /\ LogicalStart(text, p))
                  => Read(Remove(text, p, LogicalEnd(text, p)), FailAtOf(rd))
                         = Outcome(rd)

\* C8: line continuation. A raw line that ends in a backslash has it replaced
\* by one line feed and the next raw line appended with nothing in between;
\* the joined text is classified as one logical line: a continued key/value
\* line yields exactly one entry, split and trimmed from the joined text, and
\* a continued section header yields the section name with the line feed in it.
C8_LineContinuation ==
    [][(rd.status = "run" /\ rd'.branch \notin {"eof", "start"})
          => LET tok == ScanLines(rd.input).token
                 l == LineRead(rd')
                 e == rd'.delivered[Len(rd'.delivered)]
             IN  IF EndsInBackslash(tok)
                 THEN /\ rd'.branch = "continuation"
                      /\ rd'.linebuf = rd.linebuf
                             \o SubSeq(tok, 1, Len(tok) - 1) \o <<"\n">>
                 ELSE RawCount(Consumed(rd'), StartRead(rd')) >= 2
                        => /\ IsHeaderLine(l)
                              => /\ rd'.branch = "section"
                                 /\ rd'.ent.Section = SubSeq(l, 2, Len(l) - 1)
                                 /\ "\n" \in Range(rd'.ent.Section)
                           /\ IsEntryLine(l)
                              => /\ Len(rd'.delivered) = Len(rd.delivered) + 1
                                 /\ e.Key = RefTrim(RefBefore(l))
                                 /\ e.Value = RefTrim(RefAfter(l))]_vars

\* C9: key/value split. For every line classified as an entry, Key is the
\* text before the first '=' and Value the text after it, both trimmed of
\* surrounding whitespace: Key holds no '=', neither starts or ends with
\* whitespace, and the line "=" yields an empty Key and an empty Value.
C9_KeyValueSplit ==
    [][(rd.status = "run" /\ rd'.branch = "entry")
          => LET lb == rd.linebuf \o ScanLines(rd.input).token
                 l == LineRead(rd')
                 e == rd'.delivered[Len(rd'.delivered)]
             IN  /\ Len(rd'.delivered) = Len(rd.delivered) + 1
                 /\ e.Key = RefTrim(RefBefore(lb))
                 /\ e.Value = RefTrim(RefAfter(lb))
                 /\ "=" \notin Range(e.Key)
                 /\ NoEdgeSpace(e.Key) /\ NoEdgeSpace(e.Value)
                 /\ lb = <<"=">> => (e.Key = <<>> /\ e.Value = <<>>)
                 /\ IsEntryLine(l)
                       => /\ e.Key = RefTrim(RefBefore(l))
                          /\ e.Value = RefTrim(RefAfter(l))]_vars

\* An entry from a line with leading whitespace and a second '='.
C9_Witness ==
    /\ text # <<>>
    /\ text[1] = " "
    /\ rd.delivered # <<>>
    /\ rd.delivered[1].Key = <<"a">>
    /\ "=" \in Range(rd.delivered[1].Value)

\* C10: section headers in Write. The text written is, entry by entry: a
\* header line "[" escape(Section) "]" exactly when the entry's Section
\* differs from that of the entry emitted before it (from the empty string
\* for the first entry), a blank line before that header exactly when an
\* entry was written before, and then the entry's own line.
RefEntryLine(e) ==
    (IF e.Key # <<>> THEN escape(e.Key) \o <<" ">> ELSE <<>>)
    \o <<"=">>
    \o (IF e.Value # <<>> THEN <<" ">> \o escape(e.Value) ELSE <<>>)
    \o <<"\n">>

RefBlock(es, i) ==
    LET prev == IF i = 1 THEN <<>> ELSE es[i - 1].Section IN
    (IF es[i].Section # prev
     THEN (IF i > 1 THEN <<"\n">> ELSE <<>>)
          \o <<"[">> \o escape(es[i].Section) \o <<"]", "\n">>
     ELSE <<>>)
    \o RefEntryLine(es[i])

RECURSIVE RefRender(_, _)
RefRender(es, n) ==
    IF n = 0 THEN <<>> ELSE RefRender(es, n - 1) \o RefBlock(es, n)

C10_SectionHeaders ==
    (phase = "write" /\ sink.failAt = 0)
        => sink.data = RefRender(emitted, Len(emitted))

\* No header for the first entry, one header for the next two.
C10_Witness ==
    /\ sink.failAt = 0
    /\ Len(emitted) = 3
    /\ emitted[1].Section = <<>>
    /\ emitted[2].Section = <<"s">>
    /\ emitted[3].Section = <<"s">>

====
